---- MODULE Spec2Model ----
(***************************************************************************)
(* TumblrImageDownloader.scrapeBlog and the methods it drives (getPhotos,  *)
(* getPhotoset, downloadPhoto), as a state machine over one options        *)
(* object.  One action is one turn of the event loop: the arrival of one   *)
(* HTTP response (or its failure) together with every promise              *)
(* continuation that runs before the next response can be handled.         *)
(***************************************************************************)
EXTENDS Integers, Sequences, FiniteSets, TLC

\* The remote blog holds at most MaxBlog photos in all.
MaxBlog == 3
\* A photoset sub-document holds 1..MaxAnchors photo anchors.
MaxAnchors == 2
\* The start page a caller passes, and the largest page ceiling.
MaxStartPage == 2
\* The start index a caller passes, and the largest index ceiling.
MaxIndex == 1
\* The remote blog holds at most MaxFlaws photo anchors whose id attribute is
\* missing or lacks the 'photoset_link_' prefix.
MaxFlaws == 1
\* The caller invokes scrapeBlog on one options object at most MaxCalls times.
MaxCalls == 2

\* An option the caller left out (undefined).
Absent == 0 - 1

\* JavaScript truthiness of an optional number, and `x || d`.
Truthy(x) == x # Absent /\ x # 0
Or(x, d) == IF Truthy(x) THEN x ELSE d

\* _.extend(r, s): the fields of s are written over r.
Extend(r, s) ==
    [k \in DOMAIN r \cup DOMAIN s |-> IF k \in DOMAIN s THEN s[k] ELSE r[k]]

Last(s) == s[Len(s)]

RECURSIVE Flatten(_)
\* _.flatten(result): the slots' records, slot after slot, in slot order.
Flatten(result) ==
    IF result = <<>> THEN <<>>
    ELSE Head(result) \o Flatten(Tail(result))

\* URLs, by what they address.
PageUrl(page) == [kind |-> "page", at |-> <<page, 0, 0>>]
PhotosetUrl(page, i) == [kind |-> "photoset", at |-> <<page, i, 0>>]
PhotoUrl(page, i, j) == [kind |-> "photo", at |-> <<page, i, j>>]

\* The error a failed request rejects with, and the one scrapeBlog throws.
TransportError(url) == [message |-> "request failed", url |-> url]
\* The TypeError of `undefined.split(...)` in getPhotoset, for the
\* sub-document at url.
TypeError(url) == [message |-> "Cannot read property 'split' of undefined", url |-> url]
ConfigError == [message |-> "Blog subdomain not provided"]

\* The body the remote serves for a photo URL.
Body(url) == url.at

VARIABLES
    options,   \* the options object passed to scrapeBlog (mutated in place)
    call,      \* the options as they were when scrapeBlog was called
    stack,     \* the frames the invocation entered, innermost last: their locals
    pc,        \* where the crawl waits
    outcome,   \* the state of the promise scrapeBlog returned
    doc,       \* the articles of the listing page being processed
    sub,       \* the promises given to the pending Promise.all
    arrived,   \* the slots of getPhotos' Promise.all in the order they settled
    returned,  \* what getPhotos returned in the step just taken, if it did
    served,    \* the listing documents served to the invocation, in order
    remaining, \* the photos the remote blog holds beyond the pages served
    flaws,     \* the flawed anchors the remote blog holds beyond those served
    inflight,  \* the number of requests issued and not yet completed
    calls,     \* the number of scrapeBlog invocations the caller has made
    log        \* the invocation's events emitted and requests issued, in order

vars ==
    <<options, call, stack, pc, outcome, doc, sub, arrived, returned, served,
      remaining, flaws, inflight, calls, log>>

\* No return of getPhotos: what `returned` holds unless the step had one.
NoReturn == [doc |-> <<>>, order |-> <<>>, value |-> <<>>]

\* The program's state as one value, for the continuations below; a step
\* begins with no return of getPhotos recorded.
Cur ==
    [options |-> options, stack |-> stack, pc |-> pc, outcome |-> outcome,
     doc |-> doc, sub |-> sub, arrived |-> arrived, returned |-> NoReturn,
     inflight |-> inflight, log |-> log]

Apply(m) ==
    /\ options' = m.options
    /\ stack' = m.stack
    /\ pc' = m.pc
    /\ outcome' = m.outcome
    /\ doc' = m.doc
    /\ sub' = m.sub
    /\ arrived' = m.arrived
    /\ returned' = m.returned
    /\ inflight' = m.inflight
    /\ log' = m.log

\* this.emit(type, payload): the event is delivered to the listeners now.
Emit(m, event) == [m EXCEPT !.log = Append(@, event)]

\* A request leaves through `via`: the instance's this.request (cookie jar,
\* proxy agent, headers) or the module's bare request.
Issue(m, url, via) ==
    [m EXCEPT !.log = Append(@, [type |-> "request", url |-> url, via |-> via]),
              !.inflight = @ + 1]

RECURSIVE IssueAll(_, _, _)
IssueAll(m, urls, via) ==
    IF urls = <<>> THEN m
    ELSE IssueAll(Issue(m, Head(urls), via), Tail(urls), via)

RECURSIVE Catch(_, _, _)
\* An error thrown inside the try of the innermost frame: each of the n
\* frames catches it, emits 'error' and rethrows to its caller.
Catch(m, error, n) ==
    IF n = 0 THEN m
    ELSE Catch(Emit(m, [type |-> "error", error |-> error]), error, n - 1)

\* Variant of Throw: a catch that emits 'error' and does not rethrow.
ThrowSwallowed(m, error, n) ==
    [Emit(m, [type |-> "error", error |-> error]) EXCEPT
        !.pc = "settled",
        !.outcome = [state |-> "fulfilled"]]

\* The error leaves the outermost scrapeBlog: its promise rejects.
Throw(m, error, n) ==
    [Catch(m, error, n) EXCEPT
        !.pc = "settled",
        !.outcome = [state |-> "rejected", error |-> error]]

\* The id attribute of the j-th a.photoset_photo anchor of a sub-document:
\* 'photoset_link_' and the photo's id, an id without that prefix, or no id
\* attribute at all (undefined).
NoAttr == <<>>
AnchorId(page, i, j, how) ==
    CASE how = "prefixed" -> <<"photoset_link_", page, i, j>>
      [] how = "bare" -> <<"link_", page, i, j>>
      [] how = "missing" -> NoAttr

\* An article.photo / article.photoset element of page `page`, i-th in
\* document order, with the attributes getPhotos reads from it; anchors is
\* the number of a.photoset_photo anchors its sub-document holds and ids
\* their id attributes.
Article(page, i, shape) ==
    [kind |-> shape.kind, anchors |-> shape.anchors,
     ids |-> [j \in 1..shape.anchors |-> AnchorId(page, i, j, shape.ids[j])],
     photo_id |-> <<page, i, 0>>, photo_url |-> PhotoUrl(page, i, 0),
     iframe |-> PhotosetUrl(page, i), tags |-> <<page, i>>, author |-> <<page, i>>]

\* The flawed anchors among the id kinds of a sub-document.
Flawed(ids) == Cardinality({j \in 1..Len(ids) : ids[j] # "prefixed"})

Shapes(w, f) ==
    {[kind |-> "photo", anchors |-> 0, ids |-> <<>>]}
    \cup {[kind |-> "photoset", anchors |-> Len(ids), ids |-> ids] :
             ids \in {s \in UNION {[1..n -> {"prefixed", "bare", "missing"}] :
                                      n \in 1..(IF w < MaxAnchors THEN w ELSE MaxAnchors)} :
                         Flawed(s) <= f}}

\* The photos an article yields.
Weight(shape) == IF shape.kind = "photo" THEN 1 ELSE shape.anchors

RECURSIVE Layouts(_, _)
\* The sequences of article shapes that hold at most w photos, at most f of
\* them behind a flawed anchor.
Layouts(w, f) ==
    {<<>>} \cup
    (IF w = 0 THEN {}
     ELSE UNION {{<<a>> \o rest : rest \in Layouts(w - Weight(a), f - Flawed(a.ids))} :
                    a \in Shapes(w, f)})

RECURSIVE Size(_)
\* The photos a sequence of articles yields.
Size(layout) == IF layout = <<>> THEN 0 ELSE Weight(Head(layout)) + Size(Tail(layout))

RECURSIVE Flaws(_)
\* The flawed anchors of a listing document's photosets.
Flaws(d) ==
    IF d = <<>> THEN 0
    ELSE Cardinality({j \in 1..Head(d).anchors :
                        Head(d).ids[j] = NoAttr \/ Head(Head(d).ids[j]) # "photoset_link_"})
         + Flaws(Tail(d))

\* The listing documents the remote can serve for a page, w photos and f
\* flawed anchors left.
Docs(page, w, f) ==
    {[i \in 1..Len(l) |-> Article(page, i, l[i])] : l \in Layouts(w, f)}

\* $(photoset_photo).attr('id').split('photoset_link_').pop(): what follows
\* the prefix, or the whole id when it does not begin with the prefix.
StripPrefix(id) == IF Head(id) = "photoset_link_" THEN Tail(id) ELSE id

\* getPhotoset throws: some anchor has no id attribute, and .split is called
\* on undefined.
getPhotosetThrows(ids) == \E j \in 1..Len(ids) : ids[j] = NoAttr

\* getPhotoset's result for a sub-document whose a.photoset_photo anchors
\* carry the id attributes ids.
getPhotoset(url, ids) ==
    [j \in 1..Len(ids) |->
        [photo_id |-> StripPrefix(ids[j]),
         photo_url |-> PhotoUrl(url.at[1], url.at[2], j)]]

\* Variant of MergeMeta: the tags alone are written on each photo.
MergeTagsOnly(photoset_photos, article) ==
    [j \in 1..Len(photoset_photos) |->
        Extend(photoset_photos[j], [tags |-> article.tags])]

\* The .then of getPhotos: tags and author of the article on each photo.
MergeMeta(photoset_photos, article) ==
    [j \in 1..Len(photoset_photos) |->
        Extend(photoset_photos[j], [tags |-> article.tags, author |-> article.author])]

\* Variant of AttachBytes: the body is dropped.
AttachNothing(photo_info, body) == photo_info

\* The .then of scrapeBlog: the downloaded body on the photo.
AttachBytes(photo_info, body) == Extend(photo_info, [photo_bytes |-> body])

Pending(s) == {i \in 1..Len(s) : s[i].status = "pending"}

\* Variant of AllFulfilled: one fulfilled promise is enough.
SomeFulfilled(s) == s = <<>> \/ \E i \in 1..Len(s) : s[i].status = "fulfilled"
AllFulfilled(s) == \A i \in 1..Len(s) : s[i].status = "fulfilled"

InOrder(s) == [i \in 1..Len(s) |-> i]

\* Variant of AllValues: the values in the order the slots settled.
AllValuesByArrival(s, order) == [k \in 1..Len(order) |-> s[order[k]].val]

\* Promise.all's value: the slots' values by slot, whatever the order they
\* settled in.
AllValues(s, order) == [i \in 1..Len(s) |-> s[i].val]

\* Variant of PhotosOf: the accumulation starts afresh on every page.
PhotosOfReset(o) == <<>>

\* options.photos || []
PhotosOf(o) == IF "photos" \in DOMAIN o THEN o.photos ELSE <<>>

\* Variant of StopHere: no ceiling ever stops the crawl.
StopNever(o, pageNumber, index) == FALSE

\* The stop test of a non-empty page.
StopHere(o, pageNumber, index) ==
    \/ Truthy(o.stopAtIndex) /\ index >= o.stopAtIndex
    \/ Truthy(o.stopAtPage) /\ pageNumber >= o.stopAtPage

\* return options.photos / return;
Resolve(m, returnPhotos) ==
    [m EXCEPT
        !.pc = "settled",
        !.outcome = IF returnPhotos
                    THEN [state |-> "fulfilled", value |-> m.options.photos]
                    ELSE [state |-> "fulfilled"]]

\* this.emit('end') and the return that follows it.
End(m, returnPhotos) == Resolve(Emit(m, [type |-> "end"]), returnPhotos)

RECURSIVE EmitPhotosReversed(_, _)
\* Variant of EmitPhotos: the photos are emitted last to first.
EmitPhotosReversed(m, photos) ==
    IF photos = <<>> THEN m
    ELSE EmitPhotosReversed(Emit(m, [type |-> "photo", photo |-> Last(photos)]),
                            SubSeq(photos, 1, Len(photos) - 1))

RECURSIVE EmitPhotos(_, _)
\* photos.forEach((photo) => this.emit('photo', photo))
EmitPhotos(m, photos) ==
    IF photos = <<>> THEN m
    ELSE EmitPhotos(Emit(m, [type |-> "photo", photo |-> Head(photos)]), Tail(photos))

\* if (returnPhotos) options.photos = (options.photos || []).concat(photos)
Accumulate(o, returnPhotos, photos) ==
    IF returnPhotos THEN Extend(o, [photos |-> PhotosOf(o) \o photos]) ELSE o

\* getPhotos up to its first await: the listing request is issued.
getPhotosEnter(m, blogSubdomain, pageNumber) ==
    [Issue(m, PageUrl(Or(pageNumber, 1)), "this.request") EXCEPT
        !.pc = "getPhotos.request", !.doc = <<>>, !.sub = <<>>, !.arrived = <<>>]

\* Variant of scrapeBlogEnter: the defaults are assigned and the listing is
\* requested before the blog subdomain is looked at.
scrapeBlogEnterUnchecked(m) ==
    LET o == [m.options EXCEPT !.pageNumber = Or(@, 1), !.index = Or(@, 0)]
        frame == [pageNumber |-> o.pageNumber, index |-> o.index,
                  blogSubdomain |-> o.blogSubdomain,
                  downloadPhotos |-> o.downloadPhotos,
                  returnPhotos |-> o.returnPhotos]
    IN getPhotosEnter([m EXCEPT !.options = o, !.stack = Append(@, frame)],
                      frame.blogSubdomain, frame.pageNumber)

\* scrapeBlog up to its first await.
scrapeBlogEnter(m) ==
    IF m.options.blogSubdomain = ""
    THEN Throw(m, ConfigError, Len(m.stack))
    ELSE LET o == [m.options EXCEPT !.pageNumber = Or(@, 1), !.index = Or(@, 0)]
             frame == [pageNumber |-> o.pageNumber, index |-> o.index,
                       blogSubdomain |-> o.blogSubdomain,
                       downloadPhotos |-> o.downloadPhotos,
                       returnPhotos |-> o.returnPhotos]
         IN getPhotosEnter([m EXCEPT !.options = o, !.stack = Append(@, frame)],
                           frame.blogSubdomain, frame.pageNumber)

\* Variant of PageChange: the payload carries the incremented numbers.
PageChangeIncremented(f) ==
    [type |-> "pageChange", blogSubdomain |-> f.blogSubdomain,
     pageNumber |-> f.pageNumber + 1, index |-> f.index + 1]

\* Variant of PageChange: the page of the frame with the index after it.
PageChangeNewIndex(f) ==
    [type |-> "pageChange", blogSubdomain |-> f.blogSubdomain,
     pageNumber |-> f.pageNumber, index |-> f.index + 1]

\* The payload of the 'pageChange' event: the frame's locals.
PageChange(f) ==
    [type |-> "pageChange", blogSubdomain |-> f.blogSubdomain,
     pageNumber |-> f.pageNumber, index |-> f.index]

\* Variant of Advance: the index is left as it is.
AdvancePageOnly(m, f) ==
    LET o == [m.options EXCEPT !.pageNumber = @ + 1]
    IN scrapeBlogEnter(Emit([m EXCEPT !.options = o], PageChange(f)))

\* options.pageNumber++; options.index++; emit 'pageChange'; recurse.
Advance(m, f) ==
    LET o == [m.options EXCEPT !.pageNumber = @ + 1, !.index = @ + 1]
    IN scrapeBlogEnter(Emit([m EXCEPT !.options = o], PageChange(f)))

\* Variant of StopOrAdvance: the return after the ceiling's 'end' is missing.
StopOrAdvanceNoReturn(m, f, photos) ==
    IF photos # <<>>
    THEN IF StopHere(m.options, f.pageNumber, f.index)
         THEN Advance(Emit(m, [type |-> "end"]), f)
         ELSE Advance(m, f)
    ELSE End(m, f.returnPhotos)

\* if (photos.length) { stop at a ceiling, or go on } else { end }
StopOrAdvance(m, f, photos) ==
    IF photos # <<>>
    THEN IF StopHere(m.options, f.pageNumber, f.index)
         THEN End(m, f.returnPhotos)
         ELSE Advance(m, f)
    ELSE End(m, f.returnPhotos)

\* scrapeBlog from the forEach on: emit, accumulate, then stop or go on.
AfterPhotos(m, photos) ==
    LET f == Last(m.stack)
        m1 == EmitPhotos(m, photos)
        m2 == [m1 EXCEPT !.options = Accumulate(@, f.returnPhotos, photos)]
    IN StopOrAdvance(m2, f, photos)

\* scrapeBlog after getPhotos returned: the downloads, when asked for.
AfterGetPhotos(m, photos) ==
    LET f == Last(m.stack)
        slots == [i \in 1..Len(photos) |->
                    [op |-> "downloadPhoto", status |-> "pending", val |-> <<photos[i]>>]]
        m0 == [m EXCEPT !.returned = [doc |-> m.doc, order |-> m.arrived,
                                      value |-> photos]]
        m1 == [IssueAll(m0, [i \in 1..Len(photos) |-> photos[i].photo_url], "this.request")
               EXCEPT !.pc = "scrapeBlog.all", !.sub = slots, !.arrived = <<>>]
    IN IF f.downloadPhotos
       THEN IF AllFulfilled(slots)
            THEN AfterPhotos(m1, Flatten(AllValues(slots, InOrder(slots))))
            ELSE m1
       ELSE AfterPhotos(m0, photos)

\* getPhotos after the listing arrived: one promise per article.
ProcessPhotos(m, d) ==
    LET sets == SelectSeq(d, LAMBDA a : a.kind = "photoset")
        slots == [i \in 1..Len(d) |->
                    IF d[i].kind = "photoset"
                    THEN [op |-> "getPhotoset", status |-> "pending", val |-> <<>>]
                    ELSE [op |-> "resolve", status |-> "fulfilled",
                          val |-> <<[photo_id |-> d[i].photo_id,
                                     photo_url |-> d[i].photo_url,
                                     tags |-> d[i].tags, author |-> d[i].author]>>]]
        ready == SelectSeq([i \in 1..Len(d) |-> i], LAMBDA i : d[i].kind = "photo")
        m1 == [IssueAll(m, [i \in 1..Len(sets) |-> sets[i].iframe], "request") EXCEPT
                 !.doc = d, !.sub = slots, !.arrived = ready, !.pc = "getPhotos.all"]
    IN IF AllFulfilled(slots)
       THEN AfterGetPhotos(m1, Flatten(AllValues(slots, ready)))
       ELSE m1

\* A request completes, with a response or with an error.
Done(m) == [m EXCEPT !.inflight = @ - 1]

\* One settled slot of the pending Promise.all: its request has completed.
Settle(i, status, val) ==
    [Done(Cur) EXCEPT !.sub[i] = [@ EXCEPT !.status = status, !.val = val],
                !.arrived = IF pc = "getPhotos.all" THEN Append(@, i) ELSE @]

\* The options a caller passes: the start page and index are left out or
\* given (an explicit pageNumber of 1 or index of 0 is what scrapeBlog's
\* first two assignments make of an absent one).
Options ==
    [blogSubdomain : {"blog"},
     pageNumber : {Absent, MaxStartPage},
     index : {Absent, MaxIndex},
     downloadPhotos : BOOLEAN,
     returnPhotos : BOOLEAN,
     stopAtIndex : {Absent} \cup 0..MaxIndex,
     stopAtPage : {Absent} \cup 1..MaxStartPage]
    \cup
    [blogSubdomain : {""},
     pageNumber : {Absent, MaxStartPage},
     index : {Absent},
     downloadPhotos : {FALSE},
     returnPhotos : BOOLEAN,
     stopAtIndex : {Absent},
     stopAtPage : {Absent}]

\* The caller has built the options object; the remote blog is well formed,
\* every anchor of its sub-documents carrying a prefixed id.
Init ==
    /\ options \in Options
    /\ call = options
    /\ stack = <<>>
    /\ pc = "idle"
    /\ outcome = [state |-> "none"]
    /\ doc = <<>>
    /\ sub = <<>>
    /\ arrived = <<>>
    /\ returned = NoReturn
    /\ served = <<>>
    /\ remaining = MaxBlog
    /\ flaws = 0
    /\ inflight = 0
    /\ calls = 0
    /\ log = <<>>

\* downloader.scrapeBlog(options)
Invoke ==
    /\ pc = "idle"
    /\ call' = options
    /\ calls' = calls + 1
    /\ Apply(scrapeBlogEnter([Cur EXCEPT !.outcome = [state |-> "pending"]]))
    /\ UNCHANGED <<served, remaining, flaws>>

\* The listing page's response arrives.
ListingArrives ==
    /\ pc = "getPhotos.request"
    /\ \E d \in Docs(Or(Last(stack).pageNumber, 1), remaining, flaws) :
          /\ Apply(ProcessPhotos(Done(Cur), d))
          /\ served' = Append(served, d)
          /\ remaining' = remaining - Size(d)
          /\ flaws' = flaws - Flaws(d)
    /\ UNCHANGED <<call, calls>>

\* The listing page's request fails.
ListingFails ==
    /\ pc = "getPhotos.request"
    /\ Apply(Throw(Done(Cur), TransportError(PageUrl(Or(Last(stack).pageNumber, 1))),
                   Len(stack)))
    /\ UNCHANGED <<call, calls, served, remaining, flaws>>

\* A photoset sub-document arrives: getPhotoset maps its anchors, or throws
\* on one without an id attribute.
PhotosetArrives ==
    /\ pc = "getPhotos.all"
    /\ \E i \in Pending(sub) :
          IF getPhotosetThrows(doc[i].ids)
          THEN Apply(Throw(Settle(i, "rejected", <<>>), TypeError(doc[i].iframe),
                           Len(stack)))
          ELSE LET m1 == Settle(i, "fulfilled",
                                MergeMeta(getPhotoset(doc[i].iframe, doc[i].ids), doc[i]))
               IN Apply(IF AllFulfilled(m1.sub)
                        THEN AfterGetPhotos(m1, Flatten(AllValues(m1.sub, m1.arrived)))
                        ELSE m1)
    /\ UNCHANGED <<call, calls, served, remaining, flaws>>

\* A photoset sub-document's request fails.
PhotosetFails ==
    /\ pc = "getPhotos.all"
    /\ \E i \in Pending(sub) :
          Apply(Throw(Settle(i, "rejected", <<>>),
                      TransportError(doc[i].iframe), Len(stack)))
    /\ UNCHANGED <<call, calls, served, remaining, flaws>>

\* A photo's download arrives.
DownloadArrives ==
    /\ pc = "scrapeBlog.all"
    /\ \E i \in Pending(sub) :
          LET photo_info == sub[i].val[1]
              m1 == Settle(i, "fulfilled",
                           <<AttachBytes(photo_info, Body(photo_info.photo_url))>>)
          IN Apply(IF AllFulfilled(m1.sub)
                   THEN AfterPhotos(m1, Flatten(AllValues(m1.sub, InOrder(m1.sub))))
                   ELSE m1)
    /\ UNCHANGED <<call, calls, served, remaining, flaws>>

\* A photo's download fails.
DownloadFails ==
    /\ pc = "scrapeBlog.all"
    /\ \E i \in Pending(sub) :
          Apply(Throw(Settle(i, "rejected", sub[i].val),
                      TransportError(sub[i].val[1].photo_url), Len(stack)))
    /\ UNCHANGED <<call, calls, served, remaining, flaws>>

\* A request of a page that has already failed completes, with a response
\* or with an error: the Promise.all it was given to has rejected and drops
\* either, and the .then of a late download writes photo_bytes on a photo
\* that is neither emitted nor accumulated.
LateSettle ==
    /\ pc = "settled"
    /\ \E i \in Pending(sub) : sub' = [sub EXCEPT ![i].status = "late"]
    /\ inflight' = inflight - 1
    /\ returned' = NoReturn
    /\ UNCHANGED <<options, call, calls, stack, pc, outcome, doc, arrived, served,
                   remaining, flaws, log>>

Next ==
    \/ Invoke
    \/ ListingArrives
    \/ ListingFails
    \/ PhotosetArrives
    \/ PhotosetFails
    \/ DownloadArrives
    \/ DownloadFails
    \/ LateSettle

Spec == Init /\ [][Next]_vars

\* Every fetch eventually completes, with a response or with an error.
FairSpec ==
    /\ Spec
    /\ WF_vars(ListingFails \/ ListingArrives)
    /\ WF_vars(PhotosetFails \/ PhotosetArrives)
    /\ WF_vars(DownloadFails \/ DownloadArrives)

\* The remote blog's sub-documents may hold anchors whose id attribute is
\* missing or lacks the prefix.
InitMalformed ==
    /\ options \in Options
    /\ call = options
    /\ stack = <<>>
    /\ pc = "idle"
    /\ outcome = [state |-> "none"]
    /\ doc = <<>>
    /\ sub = <<>>
    /\ arrived = <<>>
    /\ returned = NoReturn
    /\ served = <<>>
    /\ remaining = MaxBlog
    /\ flaws = MaxFlaws
    /\ inflight = 0
    /\ calls = 0
    /\ log = <<>>

SpecMalformed == InitMalformed /\ [][Next]_vars

\* The caller passes the options object of a settled invocation, as
\* scrapeBlog left it, to scrapeBlog again; stack, served and log start
\* afresh and tell of the new invocation alone.
InvokeAgain ==
    /\ pc = "settled"
    /\ inflight = 0
    /\ calls < MaxCalls
    /\ calls' = calls + 1
    /\ served' = <<>>
    /\ Apply(scrapeBlogEnter([Cur EXCEPT !.outcome = [state |-> "pending"],
                                         !.stack = <<>>, !.log = <<>>]))
    /\ UNCHANGED <<call, remaining, flaws>>

NextReuse == Next \/ InvokeAgain

SpecReuse == Init /\ [][NextReuse]_vars

(***************************************************************************)
(* What the claims speak of.                                               *)
(***************************************************************************)

Events(type) == SelectSeq(log, LAMBDA e : e.type = type)
Count(type) == Len(Events(type))

\* The photos carried by the 'photo' events, all of them and per page.
Emitted ==
    LET photos == Events("photo")
    IN [i \in 1..Len(photos) |-> photos[i].photo]
PagePhotos(page) == SelectSeq(Emitted, LAMBDA photo : photo.photo_url.at[1] = page)

\* The page numbers of the listing requests, in the order issued.
ListingPages ==
    LET reqs == SelectSeq(log, LAMBDA e : e.type = "request" /\ e.url.kind = "page")
    IN [i \in 1..Len(reqs) |-> reqs[i].url.at[1]]

\* The start page and start index the caller configured (defaults 1 and 0).
StartPage == IF call.pageNumber = Absent THEN 1 ELSE call.pageNumber
StartIndex == IF call.index = Absent THEN 0 ELSE call.index

\* The photos of one article and of a listing document, read off the
\* documents in document order, with the bytes of their URLs when asked.
ArticlePhotos(a, bytes) ==
    LET photo(id, url) ==
            IF bytes
            THEN [photo_id |-> id, photo_url |-> url, tags |-> a.tags,
                  author |-> a.author, photo_bytes |-> url.at]
            ELSE [photo_id |-> id, photo_url |-> url, tags |-> a.tags,
                  author |-> a.author]
    IN IF a.kind = "photo"
       THEN <<photo(a.photo_id, a.photo_url)>>
       ELSE [j \in 1..a.anchors |->
                photo(StripPrefix(a.ids[j]),
                      [kind |-> "photo", at |-> <<a.photo_id[1], a.photo_id[2], j>>])]

RECURSIVE DocPhotos(_, _)
DocPhotos(d, bytes) ==
    IF d = <<>> THEN <<>>
    ELSE ArticlePhotos(Head(d), bytes) \o DocPhotos(Tail(d), bytes)

RECURSIVE PhotosOfPages(_)
\* The photos of the first n documents served, page after page.
PhotosOfPages(n) ==
    IF n = 0 THEN <<>>
    ELSE PhotosOfPages(n - 1) \o DocPhotos(served[n], call.downloadPhotos)

\* The i-th page of the crawl was processed to its end.
Completed(i) ==
    \/ i < Len(stack)
    \/ i = Len(stack) /\ outcome.state = "fulfilled"

EndedOnce == Count("end") = 1 /\ Count("error") = 0
FailedOnly == Count("error") >= 1 /\ Count("end") = 0
NothingAfterEnd ==
    \A i \in 1..Len(log) :
        log[i].type = "end" =>
            \A j \in (i + 1)..Len(log) :
                log[j].type \notin {"photo", "pageChange", "end", "error"}

\* C1: when the first failure of a crawl happens while a page is processed,
\* whichever page it is, the 'error' event is fired exactly once.
C1_ErrorFiredOnce ==
    (outcome.state = "rejected" /\ stack # <<>>) => Count("error") = 1

\* C2: every invocation that terminates has emitted exactly one kind of
\* terminal event, 'end' once and no 'error' or 'error' and no 'end', and
\* nothing is emitted after 'end'.
C2_OneTerminalKind ==
    /\ pc = "settled" => (EndedOnce \/ FailedOnly)
    /\ NothingAfterEnd

\* C2, amended: every invocation that was given a blog subdomain and
\* terminates has emitted exactly one kind of terminal event, and nothing
\* is emitted after 'end'.
C2_OneTerminalKindWithBlog ==
    /\ (pc = "settled" /\ call.blogSubdomain # "") => (EndedOnce \/ FailedOnly)
    /\ NothingAfterEnd

C2_Witness ==
    /\ pc = "settled"
    /\ EndedOnce
    /\ Count("pageChange") >= 1
    /\ Count("photo") >= 2

\* C3: when processing page k fails, the invocation rejects with that
\* error, no 'photo' event was emitted for page k, no 'end' was emitted, and
\* the photos emitted and accumulated are those of pages startPage..k-1.
C3_FailedPageAborts ==
    (Count("error") > 0 \/ (outcome.state = "rejected" /\ stack # <<>>)) =>
        LET k == Last(stack).pageNumber
            errors == Events("error")
        IN /\ outcome.state = "rejected"
           /\ \A i \in 1..Len(errors) : errors[i].error = outcome.error
           /\ outcome.error.url.at[1] = k
           /\ \A i \in 1..Len(stack) : stack[i].pageNumber = StartPage + i - 1
           /\ PagePhotos(k) = <<>>
           /\ Count("end") = 0
           /\ Emitted = PhotosOfPages(Len(stack) - 1)
           /\ call.returnPhotos => PhotosOf(options) = PhotosOfPages(Len(stack) - 1)

C3_Witness ==
    /\ outcome.state = "rejected"
    /\ Len(stack) >= 2
    /\ call.returnPhotos
    /\ call.downloadPhotos
    /\ PhotosOf(options) # <<>>
    /\ \E i \in 1..Len(sub) : sub[i].op = "downloadPhoto" /\ sub[i].status = "fulfilled"
    /\ \E i \in 1..Len(sub) : sub[i].op = "downloadPhoto" /\ sub[i].status = "rejected"

\* C4: when a page comes back without posts, the crawl has emitted 'end'
\* once, as its last event, and no 'error'; it has requested the pages from
\* startPage to that page and none after; and it resolves with the photos of
\* the pages before it, in order, when returnPhotos is set.
C4_ZeroPostEnds ==
    (outcome.state = "fulfilled" /\ served # <<>> /\ Last(served) = <<>>) =>
        /\ EndedOnce
        /\ Last(log).type = "end"
        /\ ListingPages = [i \in 1..Len(served) |-> StartPage + i - 1]
        /\ Emitted = PhotosOfPages(Len(served) - 1)
        /\ call.returnPhotos => outcome.value = PhotosOfPages(Len(served) - 1)

C4_Witness ==
    /\ outcome.state = "fulfilled"
    /\ Len(served) >= 3
    /\ Last(served) = <<>>
    /\ call.returnPhotos
    /\ Len(outcome.value) >= 2

\* C5: with index ceiling C, start index S <= C and no page ceiling, a crawl
\* over non-empty pages processes exactly C-S+1 pages, emits exactly C-S
\* 'pageChange' events and one 'end'.
C5_CeilingCount ==
    (call.stopAtIndex # Absent /\ call.stopAtPage = Absent
        /\ StartIndex <= call.stopAtIndex) =>
        LET n == call.stopAtIndex - StartIndex
        IN /\ Count("pageChange") <= n
           /\ Len(ListingPages) <= n + 1
           /\ (outcome.state = "fulfilled" /\ \A i \in 1..Len(served) : served[i] # <<>>)
                 => (Len(served) = n + 1 /\ Count("pageChange") = n /\ Count("end") = 1)

\* A ceiling the caller configured is reached at the frame's page.
CeilingReached(f) ==
    \/ call.stopAtIndex # Absent /\ f.index >= call.stopAtIndex
    \/ call.stopAtPage # Absent /\ f.pageNumber >= call.stopAtPage

\* C6: for every configured ceiling, an index ceiling >= 0 or a page ceiling
\* >= 1, the crawl does not go on to another page from a non-empty page at
\* which a ceiling is reached.
C6_CeilingEnds ==
    \A i \in 1..Len(stack) : i < Len(stack) => ~CeilingReached(stack[i])

\* C7: the page numbers carried by the 'pageChange' events of a crawl are
\* consecutive and the first is the start page.
C7_ConsecutivePages ==
    LET changes == Events("pageChange")
    IN \A i \in 1..Len(changes) : changes[i].pageNumber = StartPage + i - 1

C7_Witness ==
    /\ Count("pageChange") >= 2
    /\ call.pageNumber = MaxStartPage

\* C8: for every page processed to its end, its photos were emitted once
\* each, in document order, before the page's 'pageChange' or 'end' and
\* before the request for the next page; a page not processed to its end
\* has no photo emitted.
C8_PhotosBeforeAdvance ==
    \A i \in 1..Len(stack) :
        LET p == stack[i].pageNumber
        IN IF Completed(i)
           THEN /\ PagePhotos(p) = DocPhotos(served[i], call.downloadPhotos)
                /\ \A x \in 1..Len(log) :
                      (log[x].type = "photo" /\ log[x].photo.photo_url.at[1] = p) =>
                          \A y \in 1..x :
                              /\ log[y].type # "end"
                              /\ ~(log[y].type = "pageChange" /\ log[y].pageNumber = p)
                              /\ ~(/\ log[y].type = "request"
                                   /\ log[y].url.kind = "page"
                                   /\ log[y].url.at[1] = p + 1)
                /\ \/ \E y \in 1..Len(log) :
                         log[y].type = "pageChange" /\ log[y].pageNumber = p
                   \/ Count("end") = 1
           ELSE PagePhotos(p) = <<>>

C8_Witness ==
    /\ Len(stack) >= 2
    /\ Len(PagePhotos(stack[1].pageNumber)) >= 2
    /\ Count("pageChange") >= 1

\* C9: what getPhotos returns lists the articles in document order, each
\* photoset's photos in the order of its sub-document in the article's place,
\* whatever the order the photoset requests completed in; a page of N
\* articles without photosets yields N photos.
C9_DocumentOrder ==
    /\ returned.value = DocPhotos(returned.doc, FALSE)
    /\ (\A i \in 1..Len(returned.doc) : returned.doc[i].kind = "photo")
          => Len(returned.value) = Len(returned.doc)

C9_Witness ==
    /\ \E i \in 1..Len(returned.doc) : returned.doc[i].kind = "photo"
    /\ \E i \in 1..Len(returned.doc) : returned.doc[i].anchors >= 2
    /\ \E i \in 1..Len(returned.order), j \in 1..Len(returned.order) :
          i < j /\ returned.order[i] > returned.order[j]

\* C10: with downloadPhotos set, every photo carried by a 'photo' event
\* has the body served for its own URL as photo_bytes; and when a download
\* of a page fails, no 'photo' event is fired for the page and 'error' is.
C10_BytesAttached ==
    call.downloadPhotos =>
        /\ \A i \in 1..Len(log) :
              log[i].type = "photo" =>
                  /\ "photo_bytes" \in DOMAIN log[i].photo
                  /\ log[i].photo.photo_bytes = log[i].photo.photo_url.at
        /\ (\E i \in 1..Len(sub) :
                sub[i].op = "downloadPhoto" /\ sub[i].status = "rejected")
              => /\ PagePhotos(Last(stack).pageNumber) = <<>>
                 /\ Count("error") >= 1

C10_Witness ==
    /\ call.downloadPhotos
    /\ Count("photo") >= 1
    /\ \E i \in 1..Len(sub) : sub[i].op = "downloadPhoto" /\ sub[i].status = "fulfilled"
    /\ \E i \in 1..Len(sub) : sub[i].op = "downloadPhoto" /\ sub[i].status = "rejected"

\* C11: every photo getPhotos returns carries the tags and the author of the
\* article it comes from and nothing of another article, a photoset's photos
\* those of the photoset's article, whatever the order the photoset requests
\* completed in.
C11_MetadataOfParent ==
    \A k \in 1..Len(returned.value) :
        LET photo == returned.value[k]
            own == photo.photo_url.at[2]
        IN /\ DOMAIN photo = {"photo_id", "photo_url", "tags", "author"}
           /\ photo.tags = returned.doc[own].tags
           /\ photo.author = returned.doc[own].author
           /\ \A i \in 1..Len(returned.doc) :
                 i # own => /\ photo.tags # returned.doc[i].tags
                            /\ photo.author # returned.doc[i].author

C11_Witness ==
    /\ \E i \in 1..Len(returned.doc), j \in 1..Len(returned.doc) :
          /\ i < j
          /\ returned.doc[i].kind = "photoset"
          /\ returned.doc[j].kind = "photoset"
          /\ \E x \in 1..Len(returned.order), y \in 1..Len(returned.order) :
                x < y /\ returned.order[x] = j /\ returned.order[y] = i
    /\ Len(returned.value) >= 2

\* C12: scrapeBlog called without a blog subdomain rejects with the
\* configuration error; no request was issued, no event emitted, and the
\* options object is as the caller passed it.
C12_ConfigFailsFast ==
    (pc # "idle" /\ call.blogSubdomain = "") =>
        /\ outcome = [state |-> "rejected", error |-> ConfigError]
        /\ log = <<>>
        /\ inflight = 0
        /\ stack = <<>>
        /\ options = call

C12_Witness ==
    /\ pc = "settled"
    /\ call.blogSubdomain = ""
    /\ call.pageNumber = Absent
    /\ outcome.state = "rejected"

\* C13: every 'pageChange' event carries the page number and the index of
\* the page that is fetched next, the incremented ones.
C13_CarriesNewPage ==
    LET changes == Events("pageChange")
    IN \A i \in 1..Len(changes) :
          /\ changes[i].pageNumber = stack[i + 1].pageNumber
          /\ changes[i].index = stack[i + 1].index

\* C13, amended: every 'pageChange' event carries the blog, the page number
\* and the index of the page just processed, each number one less than that
\* of the page fetched next.
C13_CarriesProcessedPage ==
    LET changes == Events("pageChange")
    IN \A i \in 1..Len(changes) :
          /\ changes[i].blogSubdomain = call.blogSubdomain
          /\ changes[i].pageNumber = stack[i].pageNumber
          /\ changes[i].index = stack[i].index
          /\ changes[i].pageNumber + 1 = stack[i + 1].pageNumber
          /\ changes[i].index + 1 = stack[i + 1].index

C13_Witness ==
    /\ Count("pageChange") >= 2
    /\ call.index = MaxIndex

\* C14: when the 'error' event of a failed page is emitted, no request of
\* that page (photoset sub-document, photo download) is still in flight.
C14_Barrier ==
    Count("error") > 0 => (Pending(sub) = {} /\ inflight = 0)

\* C15: in a crawl, options.pageNumber and options.index are the start page
\* and start index plus the number of pages the crawl went on from: each
\* frame finds them one higher than the frame before, and a page that ends
\* or fails the crawl leaves them as it found them.
C15_CrawlState ==
    (pc # "idle" /\ call.blogSubdomain # "") =>
        /\ Len(stack) = Count("pageChange") + 1
        /\ \A i \in 1..Len(stack) :
              /\ stack[i].pageNumber = StartPage + i - 1
              /\ stack[i].index = StartIndex + i - 1
        /\ options.pageNumber = Last(stack).pageNumber
        /\ options.index = Last(stack).index
        /\ options.pageNumber - options.index = StartPage - StartIndex

C15_Witness ==
    /\ pc = "settled"
    /\ outcome.state = "rejected"
    /\ Len(stack) >= 2
    /\ call.index = MaxIndex
    /\ call.pageNumber = Absent

\* C16: while a listing page is being fetched it is the only request in
\* flight, and every photo of the pages before it has been emitted and,
\* with returnPhotos, accumulated; no two listing requests are in flight.
C16_SequentialPages ==
    /\ Len(ListingPages) - Len(served) <= 1
    /\ pc = "getPhotos.request" =>
          /\ inflight = 1
          /\ Len(ListingPages) = Len(served) + 1
          /\ Emitted = PhotosOfPages(Len(served))
          /\ call.returnPhotos => PhotosOf(options) = PhotosOfPages(Len(served))

C16_Witness ==
    /\ pc = "getPhotos.request"
    /\ Len(served) >= 1
    /\ call.downloadPhotos
    /\ \E i \in 1..Len(served[1]) : served[1][i].kind = "photoset"
    /\ \E i \in 1..Len(served[1]) : served[1][i].kind = "photo"

\* C17: a photoset sub-document with an anchor whose id attribute is missing
\* or lacks the 'photoset_link_' prefix fails its page: getPhotos returns
\* nothing for the page, no photo of the page is emitted, and no photo_id
\* is an id attribute with its prefix left on.
C17_MismatchFails ==
    /\ Flaws(returned.doc) > 0 => returned.value = <<>>
    /\ \A i \in 1..Len(served) :
          Flaws(served[i]) > 0 => PagePhotos(stack[i].pageNumber) = <<>>
    /\ \A i \in 1..Len(log) :
          log[i].type = "photo" => Len(log[i].photo.photo_id) = 3

\* C18: every request of a crawl is issued through the instance's
\* this.request, with its cookie jar and its proxy agent.
C18_AllViaSession ==
    \A i \in 1..Len(log) : log[i].type = "request" => log[i].via = "this.request"

\* C19: an invocation with returnPhotos that ends resolves with exactly the
\* photos it emitted as 'photo' events, and the first page it fetched is the
\* start page the caller configured, also when the options object was
\* passed to scrapeBlog before.
C19_StateOfOneInvocation ==
    (outcome.state = "fulfilled" /\ call.returnPhotos) =>
        /\ outcome.value = Emitted
        /\ ListingPages[1] = StartPage

\* C20: when every fetch completes, a crawl that has begun reaches a settled
\* state with 'end' or 'error' emitted; once settled it issues no request;
\* and with a page ceiling P >= the start page it requests at most
\* P - startPage + 1 listing pages.
C20_Terminates ==
    /\ (pc \notin {"idle", "settled"})
          ~> (pc = "settled" /\ Count("end") + Count("error") >= 1)
    /\ [][pc = "settled" => log' = log]_vars
    /\ []((call.stopAtPage # Absent /\ call.stopAtPage >= StartPage) =>
            Len(ListingPages) <= call.stopAtPage - StartPage + 1)

C20_Witness ==
    /\ pc = "settled"
    /\ call.stopAtPage = MaxStartPage
    /\ call.pageNumber = Absent
    /\ Len(ListingPages) = MaxStartPage
    /\ Count("end") = 1

====
